---- MODULE Spec2Model ----
(***************************************************************************)
(* The JobOrchestrator durable object of cv-admin-worker: the job map, its *)
(* persisted copy, the live sessions and the handlers that change them.    *)
(*                                                                         *)
(* A handler runs without interruption between two awaits.  The handlers   *)
(* that mutate a job await twice: `await request.json()` (nothing has been *)
(* read or written before it, so the request's content is chosen when the  *)
(* handler resumes) and `await this.persistJobs()`.  Each such handler is  *)
(* therefore two steps: the synchronous part up to the call of             *)
(* storage.put, and the continuation after the put has settled.            *)
(***************************************************************************)
EXTENDS Integers, Sequences, FiniteSets, TLC

VARIABLES
    jobs,       \* this.jobs: the Map as a sequence of jobs in insertion order
    stored,     \* ctx.storage, key 'jobs'
    sessions,   \* this.sessions: WebSocket -> {userId, subscribedJobs}
    now,        \* Date.now()
    inflight,   \* handlers suspended in `await this.persistJobs()`, oldest first
    call,       \* the last step of the object: the handler and its input
    resp,       \* the Response that step returned, if it returned one
    sent,       \* what that step sent on each WebSocket
    accepted    \* the WebSockets the runtime holds open (ctx.acceptWebSocket)

vars == <<jobs, stored, sessions, now, inflight, call, resp, sent, accepted>>

----------------------------------------------------------------------------
(* Bounds of the model *)

\* The clock stops here.
MaxClock == 3
\* Handlers that may be suspended in persistJobs at once, where the
\* specification lets handlers overlap.
MaxInFlight == 2
\* The size persistJobs cuts the map to: 100 in the source, scaled down.
MaxJobs == 2
\* Milliseconds in a day (24 * 60 * 60 * 1000 in the source), scaled down.
DayMs == 2

JobIds == {"j1", "j2"}
CommitIds == {"c1"}
Sockets == {"ws1", "ws2"}
UserIds == {"u1"}

----------------------------------------------------------------------------
(* Types of the source *)

Targets == {"both", "d1cv", "ai-agent"}
Services == {"d1cv", "ai-agent"}
SubStatuses == {"pending", "in-progress", "success", "failed", "skipped"}
OverallStatuses ==
    {"pending", "in-progress", "d1cv-done", "ai-done", "completed", "failed"}
UpdateStatuses == {"in-progress", "success", "failed"}
WebhookStatuses == {"success", "failed"}

\* An optional field that is absent (undefined).
Undefined == "undefined"
\* A timestamp field that is absent; a present one is an ISO string.
NoTime == <<>>
\* A result field that is absent.
NoResult == [present |-> FALSE]

\* Date.prototype.toISOString: the date and the time of day.
ToISOString(ms) == <<ms \div DayMs, ms % DayMs>>
\* new Date(iso).getTime()
GetTime(iso) == iso[1] * DayMs + iso[2]

----------------------------------------------------------------------------
(* Map<string, DOJobStatus>, in insertion order *)

MapHas(m, k) == \E i \in 1..Len(m) : m[i].jobId = k
MapIndex(m, k) == CHOOSE i \in 1..Len(m) : m[i].jobId = k
MapGet(m, k) == m[MapIndex(m, k)]
\* Mutant of MapSet: a key that is present keeps its value.
MapSet_KeepExisting(m, k, v) ==
    IF MapHas(m, k) THEN m ELSE Append(m, v)

\* Map.prototype.set: an existing key keeps its place.
MapSet(m, k, v) ==
    IF MapHas(m, k) THEN [m EXCEPT ![MapIndex(m, k)] = v] ELSE Append(m, v)
MapKeys(m) == {m[i].jobId : i \in 1..Len(m)}
MapDelete(m, k) == SelectSeq(m, LAMBDA j : j.jobId # k)

NoSessions == [w \in {} |-> TRUE]

----------------------------------------------------------------------------
(* The job state machine *)

\* Mutant of NewJob: the two `skipped` tests are exchanged.
NewJob_SkipSwapped(jobId, commitId, target, t) ==
    [ jobId         |-> jobId,
      commitId      |-> commitId,
      target        |-> target,
      overallStatus |-> "pending",
      d1cvStatus    |-> IF target = "d1cv" THEN "skipped" ELSE "pending",
      aiAgentStatus |-> IF target = "ai-agent" THEN "skipped" ELSE "pending",
      d1cvResult    |-> NoResult,
      aiAgentResult |-> NoResult,
      startedAt     |-> ToISOString(t),
      updatedAt     |-> ToISOString(t),
      completedAt   |-> NoTime ]

\* handleCreateJob: the job object it builds.
NewJob(jobId, commitId, target, t) ==
    [ jobId         |-> jobId,
      commitId      |-> commitId,
      target        |-> target,
      overallStatus |-> "pending",
      d1cvStatus    |-> IF target = "ai-agent" THEN "skipped" ELSE "pending",
      aiAgentStatus |-> IF target = "d1cv" THEN "skipped" ELSE "pending",
      d1cvResult    |-> NoResult,
      aiAgentResult |-> NoResult,
      startedAt     |-> ToISOString(t),
      updatedAt     |-> ToISOString(t),
      completedAt   |-> NoTime ]

\* Mutant of updateOverallStatus: the d1cv-done branch is tested first.
updateOverallStatus_DoneFirst(job, t) ==
    LET d1Done   == job.d1cvStatus = "success" \/ job.d1cvStatus = "skipped"
        aiDone   == job.aiAgentStatus = "success" \/ job.aiAgentStatus = "skipped"
        d1Failed == job.d1cvStatus = "failed"
        aiFailed == job.aiAgentStatus = "failed"
    IN  IF d1Done /\ ~aiDone /\ job.target = "both"
        THEN [job EXCEPT !.overallStatus = "d1cv-done"]
        ELSE IF d1Failed \/ aiFailed
        THEN [job EXCEPT !.overallStatus = "failed",
                         !.completedAt = ToISOString(t)]
        ELSE IF d1Done /\ aiDone
        THEN [job EXCEPT !.overallStatus = "completed",
                         !.completedAt = ToISOString(t)]
        ELSE IF aiDone /\ job.target = "both"
        THEN [job EXCEPT !.overallStatus = "ai-done"]
        ELSE IF job.d1cvStatus = "in-progress" \/ job.aiAgentStatus = "in-progress"
        THEN [job EXCEPT !.overallStatus = "in-progress"]
        ELSE job

\* Mutant of updateOverallStatus: the ai-done branch is missing.
updateOverallStatus_NoAiDone(job, t) ==
    LET d1Done   == job.d1cvStatus = "success" \/ job.d1cvStatus = "skipped"
        aiDone   == job.aiAgentStatus = "success" \/ job.aiAgentStatus = "skipped"
        d1Failed == job.d1cvStatus = "failed"
        aiFailed == job.aiAgentStatus = "failed"
    IN  IF d1Failed \/ aiFailed
        THEN [job EXCEPT !.overallStatus = "failed",
                         !.completedAt = ToISOString(t)]
        ELSE IF d1Done /\ aiDone
        THEN [job EXCEPT !.overallStatus = "completed",
                         !.completedAt = ToISOString(t)]
        ELSE IF d1Done /\ job.target = "both"
        THEN [job EXCEPT !.overallStatus = "d1cv-done"]
        ELSE IF job.d1cvStatus = "in-progress" \/ job.aiAgentStatus = "in-progress"
        THEN [job EXCEPT !.overallStatus = "in-progress"]
        ELSE job

\* updateOverallStatus, at clock t.
updateOverallStatus(job, t) ==
    LET d1Done   == job.d1cvStatus = "success" \/ job.d1cvStatus = "skipped"
        aiDone   == job.aiAgentStatus = "success" \/ job.aiAgentStatus = "skipped"
        d1Failed == job.d1cvStatus = "failed"
        aiFailed == job.aiAgentStatus = "failed"
    IN  IF d1Failed \/ aiFailed
        THEN [job EXCEPT !.overallStatus = "failed",
                         !.completedAt = ToISOString(t)]
        ELSE IF d1Done /\ aiDone
        THEN [job EXCEPT !.overallStatus = "completed",
                         !.completedAt = ToISOString(t)]
        ELSE IF d1Done /\ job.target = "both"
        THEN [job EXCEPT !.overallStatus = "d1cv-done"]
        ELSE IF aiDone /\ job.target = "both"
        THEN [job EXCEPT !.overallStatus = "ai-done"]
        ELSE IF job.d1cvStatus = "in-progress" \/ job.aiAgentStatus = "in-progress"
        THEN [job EXCEPT !.overallStatus = "in-progress"]
        ELSE job

\* Mutant of applyTargetStatus: the overall status is derived from the job as
\* it was read, before the new sub-status is written.
applyTargetStatus_Stale(job, target, status, t) ==
    LET derived == updateOverallStatus([job EXCEPT !.updatedAt = ToISOString(t)], t)
    IN  IF target = "d1cv"
        THEN [derived EXCEPT !.d1cvStatus = status]
        ELSE [derived EXCEPT !.aiAgentStatus = status]

\* handleUpdateTargetStatus, from the write of the sub-status to the call of
\* updateOverallStatus.
applyTargetStatus(job, target, status, t) ==
    LET set == IF target = "d1cv"
               THEN [job EXCEPT !.d1cvStatus = status]
               ELSE [job EXCEPT !.aiAgentStatus = status]
    IN  updateOverallStatus([set EXCEPT !.updatedAt = ToISOString(t)], t)

\* The object literal { success, message, error, ...details }: a key of
\* details replaces the key of the same name written before it.
ResultOf(status, message, error, details) ==
    LET base == [success |-> (status = "success"),
                 message |-> message,
                 error   |-> error]
    IN  [present |-> TRUE, value |-> details @@ base]

\* details of a payload that carries none
NoDetails == [k \in {} |-> TRUE]

\* The details a payload may carry: none, a key of the sender's own, or a key
\* that the result object also has.
DetailsSet == {NoDetails, [chunks |-> "3"], [success |-> FALSE]}

\* Mutant of applyWebhook: a callback of the AI agent also takes the D1CV
\* result away.
applyWebhook_ClearsOther(job, source, status, message, error, details, t) ==
    LET set == IF source = "d1cv"
               THEN [job EXCEPT !.d1cvStatus = status,
                                !.d1cvResult =
                                    ResultOf(status, message, error, NoDetails)]
               ELSE IF source = "ai-agent"
               THEN [job EXCEPT !.aiAgentStatus = status,
                                !.aiAgentResult =
                                    ResultOf(status, message, error, details),
                                !.d1cvResult = NoResult]
               ELSE job
    IN  updateOverallStatus([set EXCEPT !.updatedAt = ToISOString(t)], t)

\* Mutant of applyWebhook: updateOverallStatus is not called.
applyWebhook_NoDerive(job, source, status, message, error, details, t) ==
    LET set == IF source = "d1cv"
               THEN [job EXCEPT !.d1cvStatus = status,
                                !.d1cvResult =
                                    ResultOf(status, message, error, NoDetails)]
               ELSE IF source = "ai-agent"
               THEN [job EXCEPT !.aiAgentStatus = status,
                                !.aiAgentResult =
                                    ResultOf(status, message, error, details)]
               ELSE job
    IN  [set EXCEPT !.updatedAt = ToISOString(t)]

\* handleWebhook, from the write of the sub-status and the result to the call
\* of updateOverallStatus.
applyWebhook(job, source, status, message, error, details, t) ==
    LET set == IF source = "d1cv"
               THEN [job EXCEPT !.d1cvStatus = status,
                                !.d1cvResult =
                                    ResultOf(status, message, error, NoDetails)]
               ELSE IF source = "ai-agent"
               THEN [job EXCEPT !.aiAgentStatus = status,
                                !.aiAgentResult =
                                    ResultOf(status, message, error, details)]
               ELSE job
    IN  updateOverallStatus([set EXCEPT !.updatedAt = ToISOString(t)], t)

----------------------------------------------------------------------------
(* persistJobs *)

\* Array.prototype.sort with (a, b) => time(b) - time(a): stable, newest
\* updatedAt first.  InsertDesc puts e behind every entry that is not older.
RECURSIVE InsertDesc(_, _)
InsertDesc(s, e) ==
    IF s = <<>> THEN <<e>>
    ELSE IF GetTime(Head(s).updatedAt) >= GetTime(e.updatedAt)
         THEN <<Head(s)>> \o InsertDesc(Tail(s), e)
         ELSE <<e>> \o s

RECURSIVE SortDesc(_)
SortDesc(s) ==
    IF s = <<>> THEN <<>>
    ELSE InsertDesc(SortDesc(SubSeq(s, 1, Len(s) - 1)), s[Len(s)])

\* Mutant of KeepLatest: the entries are cut to the cap without the sort.
KeepLatest_Unsorted(m) ==
    IF Len(m) > MaxJobs THEN SubSeq(m, 1, MaxJobs) ELSE m

\* The map persistJobs leaves in this.jobs and hands to storage.put.
KeepLatest(m) ==
    IF Len(m) > MaxJobs THEN SubSeq(SortDesc(m), 1, MaxJobs) ELSE m

----------------------------------------------------------------------------
(* broadcastJobUpdate *)

StatusMessage(job, t) ==
    [type |-> "status", jobId |-> job.jobId, data |-> job,
     timestamp |-> ToISOString(t)]

\* Mutant of Subscribers: the loop sends to every registered socket.
Subscribers_Everyone(ss, jobId) == DOMAIN ss

\* The sessions the loop sends to.
Subscribers(ss, jobId) ==
    {w \in DOMAIN ss :
        jobId \in ss[w].subscribedJobs \/ "all" \in ss[w].subscribedJobs}

NothingSent == [w \in Sockets |-> <<>>]

\* Mutant of BroadcastSent: the loop has no try/catch, a send that throws
\* ends it.
BroadcastSent_Aborts(ss, job, t, broken) ==
    [w \in Sockets |->
        IF broken = {} /\ w \in Subscribers(ss, job.jobId)
        THEN <<StatusMessage(job, t)>> ELSE <<>>]

\* What each socket is sent; on the sockets of `broken` ws.send throws.
BroadcastSent(ss, job, t, broken) ==
    [w \in Sockets |->
        IF w \in Subscribers(ss, job.jobId) \ broken
        THEN <<StatusMessage(job, t)>> ELSE <<>>]

\* The sessions left: a socket whose send threw is deleted.
BroadcastSessions(ss, job, broken) ==
    [w \in DOMAIN ss \ (Subscribers(ss, job.jobId) \cap broken) |-> ss[w]]

----------------------------------------------------------------------------
(* Handlers suspended in `await this.persistJobs()` *)

\* A suspended handler holds a reference to its job object.  While the object
\* is the one the map holds under its key (attached) the handler sees every
\* later write to it; once the map has dropped or replaced it, nothing writes
\* to it any more and `job` is its last value.
Suspended(op, jobId, job, m, input) ==
    [op |-> op, jobId |-> jobId, attached |-> MapHas(m, jobId), job |-> job,
     putval |-> m, input |-> input]

\* The suspended handlers after the map has let go of the objects of `keys`;
\* `old` is the map before.
Detach(q, old, keys) ==
    [i \in 1..Len(q) |->
        IF q[i].attached /\ q[i].jobId \in keys
        THEN [q[i] EXCEPT !.attached = FALSE, !.job = MapGet(old, q[i].jobId)]
        ELSE q[i]]

\* The object a suspended handler's `job` refers to, as it is now.
JobOf(e) == IF e.attached THEN MapGet(jobs, e.jobId) ELSE e.job

NoCall == [op |-> "none"]
NoResp == [op |-> "none", status |-> 0]

\* The constructor's callback suspended in `await this.ctx.storage.get('jobs')`.
LoadEntry ==
    [op |-> "load", jobId |-> "", attached |-> FALSE, job |-> <<>>,
     putval |-> <<>>, input |-> <<>>]
LoadPending == inflight # <<>> /\ Head(inflight).op = "load"

\* Mutant of Blocked: the constructor starts the load without
\* blockConcurrencyWhile, so events are delivered while it is pending.
Blocked_NoGate == FALSE

\* blockConcurrencyWhile: no event is delivered to the object while the
\* callback it was given is pending.
Blocked == LoadPending

Init ==
    /\ jobs = <<>>
    /\ stored = [has |-> FALSE, jobs |-> <<>>]
    /\ sessions = NoSessions
    /\ now = 0
    /\ inflight = <<>>
    /\ call = NoCall
    /\ resp = NoResp
    /\ sent = NothingSent
    /\ accepted = {}

\* Time passes.
Tick ==
    /\ now < MaxClock
    /\ now' = now + 1
    /\ UNCHANGED <<jobs, stored, sessions, inflight, call, resp, sent, accepted>>

\* A request whose body is not JSON: request.json() throws and the catch
\* answers 500.
handleBadBody(op) ==
    /\ ~Blocked
    /\ resp' = [op |-> op, status |-> 500, body |-> [error |-> "SyntaxError"]]
    /\ call' = [op |-> op, parsed |-> FALSE]
    /\ sent' = NothingSent
    /\ UNCHANGED <<jobs, stored, sessions, now, inflight, accepted>>

\* handleCreateJob up to the call of storage.put; at most `limit` handlers
\* are suspended at once.
handleCreateJob(limit, jobId, commitId, target) ==
    LET job  == NewJob(jobId, commitId, target, now)
        set  == MapSet(jobs, jobId, job)
        kept == KeepLatest(set)
        gone == (IF MapHas(jobs, jobId) THEN {jobId} ELSE {})
                    \cup (MapKeys(jobs) \ MapKeys(kept))
    IN  /\ ~Blocked
        /\ Len(inflight) < limit
        /\ jobs' = kept
        /\ inflight' = Append(Detach(inflight, jobs, gone),
                              Suspended("create", jobId, job, kept,
                                        [target |-> target,
                                         existed |-> MapHas(jobs, jobId)]))
        /\ call' = [op |-> "create", parsed |-> TRUE, jobId |-> jobId,
                    found |-> MapHas(jobs, jobId), target |-> target]
        /\ sent' = NothingSent
        /\ resp' = NoResp
        /\ UNCHANGED <<stored, sessions, now, accepted>>

\* The common tail of handleUpdateTargetStatus and handleWebhook once the job
\* object has been written: persistJobs up to the call of storage.put.
Persist(limit, op, jobId, job, input) ==
    LET set  == MapSet(jobs, jobId, job)
        kept == KeepLatest(set)
        gone == MapKeys(jobs) \ MapKeys(kept)
    IN  /\ Len(inflight) < limit
        /\ jobs' = kept
        /\ inflight' = Append(Detach(inflight, set, gone),
                              Suspended(op, jobId, job, kept, input))

\* Mutant of NotFound: persistJobs is called before the job is looked up.
NotFound_Persists(op, jobId) ==
    /\ resp' = [op |-> op, status |-> 404, jobId |-> jobId,
                body |-> [error |-> "Job not found"]]
    /\ sent' = NothingSent
    /\ stored' = [has |-> TRUE, jobs |-> jobs]
    /\ UNCHANGED <<jobs, sessions, now, inflight, accepted>>

\* The 404 of handleUpdateTargetStatus and handleWebhook.
NotFound(op, jobId) ==
    /\ resp' = [op |-> op, status |-> 404, jobId |-> jobId,
                body |-> [error |-> "Job not found"]]
    /\ sent' = NothingSent
    /\ UNCHANGED <<jobs, stored, sessions, now, inflight, accepted>>

\* handleUpdateTargetStatus up to the call of storage.put, or its 404.
handleUpdateTargetStatus(limit, jobId, target, status) ==
    /\ ~Blocked
    /\ call' = [op |-> "update", parsed |-> TRUE, jobId |-> jobId,
                found |-> MapHas(jobs, jobId), target |-> target,
                status |-> status]
    /\ IF ~MapHas(jobs, jobId)
       THEN NotFound("update", jobId)
       ELSE /\ Persist(limit, "update", jobId,
                       applyTargetStatus(MapGet(jobs, jobId), target, status, now),
                       [target |-> target, status |-> status])
            /\ sent' = NothingSent
            /\ resp' = NoResp
            /\ UNCHANGED <<stored, sessions, now, accepted>>

\* handleWebhook once the payload has been read: up to the call of
\* storage.put, or its 404.
webhookReceived(limit, jobId, source, status, message, error, details) ==
    /\ ~Blocked
    /\ IF ~MapHas(jobs, jobId)
       THEN NotFound("webhook", jobId)
       ELSE /\ Persist(limit, "webhook", jobId,
                       applyWebhook(MapGet(jobs, jobId), source, status,
                                    message, error, details, now),
                       [target |-> source, status |-> status])
            /\ sent' = NothingSent
            /\ resp' = NoResp
            /\ UNCHANGED <<stored, sessions, now, accepted>>

\* handleWebhook, called at the orchestrator's /webhook.
handleWebhook(limit, jobId, source, status, message, error, details) ==
    /\ call' = [op |-> "webhook", parsed |-> TRUE, jobId |-> jobId,
                found |-> MapHas(jobs, jobId), target |-> source,
                status |-> status, message |-> message, error |-> error,
                details |-> details]
    /\ webhookReceived(limit, jobId, source, status, message, error, details)

\* The Response of a handler whose put has resolved.
Success(e, job) ==
    IF e.op = "webhook"
    THEN [op |-> e.op, status |-> 200, jobId |-> e.jobId,
          body |-> [success |-> TRUE, jobStatus |-> job.overallStatus,
                    message |-> e.input.target]]
    ELSE [op |-> e.op, status |-> 200, jobId |-> e.jobId,
          body |-> [success |-> TRUE, job |-> job]]

\* storage.put resolves for the oldest suspended handler, which goes on to
\* broadcastJobUpdate and its Response; ws.send throws on the sockets of
\* `broken`.
putResolved(broken) ==
    /\ inflight # <<>>
    /\ Head(inflight).op \in {"create", "update", "webhook"}
    /\ LET e   == Head(inflight)
           job == JobOf(e)
       IN  /\ broken \subseteq Subscribers(sessions, job.jobId)
           /\ stored' = [has |-> TRUE, jobs |-> e.putval]
           /\ sessions' = BroadcastSessions(sessions, job, broken)
           /\ sent' = BroadcastSent(sessions, job, now, broken)
           /\ resp' = Success(e, job)
    /\ inflight' = Tail(inflight)
    /\ call' = [op |-> "resolved", parsed |-> TRUE, of |-> Head(inflight).op,
                jobId |-> Head(inflight).jobId, input |-> Head(inflight).input]
    /\ UNCHANGED <<jobs, now, accepted>>

\* Mutant of putRejected: the rejection is swallowed and the handler goes on
\* as if the save had been made.
putRejected_Swallowed ==
    /\ inflight # <<>>
    /\ Head(inflight).op \in {"create", "update", "webhook"}
    /\ resp' = Success(Head(inflight), JobOf(Head(inflight)))
    /\ sent' = BroadcastSent(sessions, JobOf(Head(inflight)), now, {})
    /\ inflight' = Tail(inflight)
    /\ call' = [op |-> "rejected", parsed |-> TRUE, of |-> Head(inflight).op,
                jobId |-> Head(inflight).jobId, input |-> Head(inflight).input]
    /\ UNCHANGED <<jobs, stored, sessions, now, accepted>>

\* storage.put rejects for the oldest suspended handler: its catch answers 500.
putRejected ==
    /\ inflight # <<>>
    /\ Head(inflight).op \in {"create", "update", "webhook"}
    /\ resp' = [op |-> Head(inflight).op, status |-> 500,
                jobId |-> Head(inflight).jobId,
                body |-> [error |-> "Error"]]
    /\ sent' = NothingSent
    /\ inflight' = Tail(inflight)
    /\ call' = [op |-> "rejected", parsed |-> TRUE, of |-> Head(inflight).op,
                jobId |-> Head(inflight).jobId, input |-> Head(inflight).input]
    /\ UNCHANGED <<jobs, stored, sessions, now, accepted>>

\* fetch, GET /job/status
getStatus(jobId) ==
    /\ ~Blocked
    /\ resp' = IF MapHas(jobs, jobId)
               THEN [op |-> "status", status |-> 200, jobId |-> jobId,
                     body |-> MapGet(jobs, jobId)]
               ELSE [op |-> "status", status |-> 404, jobId |-> jobId,
                     body |-> [error |-> "Job not found"]]
    /\ call' = [op |-> "status", parsed |-> TRUE, jobId |-> jobId,
                found |-> MapHas(jobs, jobId)]
    /\ sent' = NothingSent
    /\ UNCHANGED <<jobs, stored, sessions, now, inflight, accepted>>

----------------------------------------------------------------------------
(* The live sessions *)

\* handleWebSocketUpgrade: a new socket is accepted and registered.
handleWebSocketUpgrade(ws, userId) ==
    /\ ~Blocked
    /\ ws \notin accepted
    /\ accepted' = accepted \cup {ws}
    /\ sessions' = [w \in DOMAIN sessions \cup {ws} |->
                       IF w = ws
                       THEN [userId |-> userId, subscribedJobs |-> {}]
                       ELSE sessions[w]]
    /\ sent' = [NothingSent EXCEPT ![ws] =
                   <<[type |-> "connected", timestamp |-> ToISOString(now)]>>]
    /\ resp' = [op |-> "upgrade", status |-> 101]
    /\ call' = [op |-> "upgrade", parsed |-> TRUE]
    /\ UNCHANGED <<jobs, stored, now, inflight>>

\* Mutant of wsSubscribe: the job id is added and nothing is replayed.
wsSubscribe_NoReplay(ws, jobId) ==
    /\ ~Blocked
    /\ ws \in accepted
    /\ call' = [op |-> "subscribe", parsed |-> TRUE, jobId |-> jobId, ws |-> ws]
    /\ IF ws \notin DOMAIN sessions
       THEN UNCHANGED sessions
       ELSE sessions' = [sessions EXCEPT ![ws].subscribedJobs = @ \cup {jobId}]
    /\ sent' = NothingSent
    /\ resp' = NoResp
    /\ UNCHANGED <<jobs, stored, now, inflight, accepted>>

\* webSocketMessage with { type: 'subscribe', jobId }
wsSubscribe(ws, jobId) ==
    /\ ~Blocked
    /\ ws \in accepted
    /\ call' = [op |-> "subscribe", parsed |-> TRUE, jobId |-> jobId, ws |-> ws]
    /\ IF ws \notin DOMAIN sessions
       THEN /\ sent' = NothingSent
            /\ UNCHANGED sessions
       ELSE /\ sessions' = [sessions EXCEPT ![ws].subscribedJobs = @ \cup {jobId}]
            /\ sent' = IF MapHas(jobs, jobId)
                       THEN [NothingSent EXCEPT ![ws] =
                               <<StatusMessage(MapGet(jobs, jobId), now)>>]
                       ELSE NothingSent
    /\ resp' = NoResp
    /\ UNCHANGED <<jobs, stored, now, inflight, accepted>>

\* webSocketMessage with { type: 'unsubscribe', jobId }
wsUnsubscribe(ws, jobId) ==
    /\ ~Blocked
    /\ ws \in accepted
    /\ call' = [op |-> "unsubscribe", parsed |-> TRUE, jobId |-> jobId,
                ws |-> ws]
    /\ IF ws \notin DOMAIN sessions
       THEN UNCHANGED sessions
       ELSE sessions' = [sessions EXCEPT ![ws].subscribedJobs = @ \ {jobId}]
    /\ sent' = NothingSent
    /\ resp' = NoResp
    /\ UNCHANGED <<jobs, stored, now, inflight, accepted>>

\* webSocketMessage with { type: 'ping' }
wsPing(ws) ==
    /\ ~Blocked
    /\ ws \in accepted
    /\ call' = [op |-> "ping", parsed |-> TRUE, ws |-> ws]
    /\ sent' = IF ws \in DOMAIN sessions
               THEN [NothingSent EXCEPT ![ws] =
                       <<[type |-> "pong", timestamp |-> ToISOString(now)]>>]
               ELSE NothingSent
    /\ resp' = NoResp
    /\ UNCHANGED <<jobs, stored, sessions, now, inflight, accepted>>

\* webSocketMessage with { type: 'list-active' }
wsListActive(ws) ==
    /\ ~Blocked
    /\ ws \in accepted
    /\ call' = [op |-> "list-active", parsed |-> TRUE, ws |-> ws]
    /\ sent' = IF ws \in DOMAIN sessions
               THEN [NothingSent EXCEPT ![ws] =
                       <<[type |-> "active-jobs",
                          data |-> SelectSeq(jobs, LAMBDA j :
                                      j.overallStatus # "completed"
                                          /\ j.overallStatus # "failed"),
                          timestamp |-> ToISOString(now)]>>]
               ELSE NothingSent
    /\ resp' = NoResp
    /\ UNCHANGED <<jobs, stored, sessions, now, inflight, accepted>>

\* Mutant of wsMalformed: the catch gives the socket up.
wsMalformed_Drops(ws) ==
    /\ ~Blocked
    /\ ws \in accepted
    /\ call' = [op |-> "message", parsed |-> FALSE, ws |-> ws]
    /\ sessions' = [w \in DOMAIN sessions \ {ws} |-> sessions[w]]
    /\ sent' = NothingSent
    /\ resp' = NoResp
    /\ UNCHANGED <<jobs, stored, now, inflight, accepted>>

\* webSocketMessage with a message that JSON.parse rejects, or whose value
\* has no property to read (null): the catch logs the error.
wsMalformed(ws) ==
    /\ ~Blocked
    /\ ws \in accepted
    /\ call' = [op |-> "message", parsed |-> FALSE, ws |-> ws]
    /\ sent' = NothingSent
    /\ resp' = NoResp
    /\ UNCHANGED <<jobs, stored, sessions, now, inflight, accepted>>

\* webSocketMessage with a type that no case of the switch names.
wsOther(ws) ==
    /\ ~Blocked
    /\ ws \in accepted
    /\ call' = [op |-> "message", parsed |-> TRUE, ws |-> ws]
    /\ sent' = NothingSent
    /\ resp' = NoResp
    /\ UNCHANGED <<jobs, stored, sessions, now, inflight, accepted>>

\* webSocketClose and webSocketError
webSocketClose(ws) ==
    /\ ~Blocked
    /\ ws \in accepted
    /\ accepted' = accepted \ {ws}
    /\ sessions' = [w \in DOMAIN sessions \ {ws} |-> sessions[w]]
    /\ call' = [op |-> "close", parsed |-> TRUE, ws |-> ws]
    /\ sent' = NothingSent
    /\ resp' = NoResp
    /\ UNCHANGED <<jobs, stored, now, inflight>>

----------------------------------------------------------------------------
(* alarm *)

\* The test of the loop of alarm, at time t.
Expired(job, t) ==
    job.completedAt # NoTime /\ GetTime(job.completedAt) < t - DayMs

\* The map the loop of alarm leaves.
Sweep(m, t) == SelectSeq(m, LAMBDA job : ~Expired(job, t))

\* alarm up to the call of storage.put.
alarm(limit) ==
    LET swept == Sweep(jobs, now)
        kept  == KeepLatest(swept)
    IN  /\ ~Blocked
        /\ Len(inflight) < limit
        /\ jobs' = kept
        /\ inflight' = Append(Detach(inflight, jobs,
                                     MapKeys(jobs) \ MapKeys(kept)),
                              [op |-> "alarm", jobId |-> "", attached |-> FALSE,
                               job |-> <<>>, putval |-> kept, input |-> <<>>])
        /\ call' = [op |-> "alarm", parsed |-> TRUE]
        /\ resp' = NoResp
        /\ sent' = NothingSent
        /\ UNCHANGED <<stored, sessions, now, accepted>>

\* storage.put resolves for an alarm, which returns.
alarmResolved ==
    /\ inflight # <<>>
    /\ Head(inflight).op = "alarm"
    /\ stored' = [has |-> TRUE, jobs |-> Head(inflight).putval]
    /\ inflight' = Tail(inflight)
    /\ call' = [op |-> "alarm-saved", parsed |-> TRUE]
    /\ resp' = NoResp
    /\ sent' = NothingSent
    /\ UNCHANGED <<jobs, sessions, now, accepted>>

----------------------------------------------------------------------------
(* Restart *)

\* The object is evicted from memory or crashes and is constructed again:
\* the constructor empties both maps and starts the load.  The handlers that
\* were suspended are gone; the puts of the first k of them had reached the
\* store.  The sockets the runtime has accepted outlive the object.
restart(k) ==
    /\ ~LoadPending
    /\ k \in 0..Len(inflight)
    /\ stored' = IF k = 0 THEN stored
                 ELSE [has |-> TRUE, jobs |-> inflight[k].putval]
    /\ jobs' = <<>>
    /\ sessions' = NoSessions
    /\ inflight' = <<LoadEntry>>
    /\ call' = [op |-> "restart", parsed |-> TRUE]
    /\ resp' = NoResp
    /\ sent' = NothingSent
    /\ UNCHANGED <<now, accepted>>

\* storage.get resolves: `if (storedJobs) this.jobs = storedJobs`.
loadResolved ==
    /\ LoadPending
    /\ jobs' = IF stored.has THEN stored.jobs ELSE jobs
    /\ inflight' = Tail(inflight)
    /\ call' = [op |-> "loaded", parsed |-> TRUE]
    /\ resp' = NoResp
    /\ sent' = NothingSent
    /\ UNCHANGED <<stored, sessions, now, accepted>>

----------------------------------------------------------------------------
(* The Worker's route POST /v2/webhook *)

\* The raw bodies of the callbacks and the payloads c.req.json() reads from
\* them.
Bodies == {"b1", "b2"}
ParseBody(body) ==
    [jobId |-> "j1", source |-> "ai-agent",
     status |-> IF body = "b1" THEN "success" ELSE "failed"]

\* WEBHOOK_SECRET: not configured, or a key.
Secrets == {Undefined, "k1"}
Keys == {"k1", "k2"}

\* crypto.subtle.sign('HMAC', key, body) as an ideal MAC: two tags are equal
\* only for the same key and the same body.
HmacSha256(key, body) == <<key, body>>
\* The tag's bytes written as lower-case hexadecimal digits.
ToHex(tag) == <<"hex">> \o tag

\* c.req.header('X-Webhook-Signature'): no header, an empty header, or the
\* hexadecimal signature some key gives some body.
NoHeader == [present |-> FALSE, text |-> <<>>]
SignatureHeaders ==
    {NoHeader, [present |-> TRUE, text |-> <<>>]}
        \cup {[present |-> TRUE, text |-> ToHex(HmacSha256(k, b))] :
                 k \in Keys, b \in Bodies}

\* JavaScript's truthiness of a header: undefined and '' are falsy.
Truthy(header) == header.present /\ header.text # <<>>

\* Mutant of InvalidSignature: a signature made with the secret is taken
\* whatever body it was made for.
InvalidSignature_AnyBody(secret, signature, body) ==
    /\ secret # Undefined
    /\ Truthy(signature)
    /\ \A b \in Bodies : signature.text # ToHex(HmacSha256(secret, b))

\* The route answers 401: `webhookSecret && signature` holds and the
\* signature is not the expected one.
InvalidSignature(secret, signature, body) ==
    /\ secret # Undefined
    /\ Truthy(signature)
    /\ signature.text # ToHex(HmacSha256(secret, body))

\* POST /v2/webhook: the 401, or the payload forwarded to the orchestrator's
\* /webhook and handled there, whose Response the route returns.
v2Webhook(limit, secret, signature, body) ==
    IF InvalidSignature(secret, signature, body)
    THEN /\ call' = [op |-> "v2/webhook", parsed |-> TRUE, secret |-> secret,
                     signature |-> signature, body |-> body]
         /\ resp' = [op |-> "v2/webhook", status |-> 401,
                     body |-> [error |-> "Invalid webhook signature"]]
         /\ sent' = NothingSent
         /\ UNCHANGED <<jobs, stored, sessions, now, inflight, accepted>>
    ELSE LET payload == ParseBody(body)
         IN  /\ call' = [op |-> "webhook", parsed |-> TRUE,
                         jobId |-> payload.jobId,
                         found |-> MapHas(jobs, payload.jobId),
                         target |-> payload.source, status |-> payload.status,
                         secret |-> secret, signature |-> signature,
                         body |-> body]
             /\ webhookReceived(limit, payload.jobId, payload.source,
                                payload.status, "m1", Undefined, NoDetails)

----------------------------------------------------------------------------
(* The Worker's routes POST /v2/push/d1cv and POST /v2/push/ai *)

\* A route awaits each of its requests to the orchestrator, so where it is
\* can be read from the last thing that happened: `call`.

\* No push is under way.
PushIdle == inflight = <<>> /\ call.op \in {"none", "push"}

\* The orchestrator has answered the route's request `of` for the job.
Answered(of, jobId) ==
    /\ inflight = <<>>
    /\ call.op = "resolved"
    /\ call.of = of
    /\ call.jobId = jobId

\* The route creates the job of its target in the orchestrator.
pushCreate(limit, jobId, commitId, target) ==
    /\ PushIdle
    /\ handleCreateJob(limit, jobId, commitId, target)

\* The route reports in-progress for its target.
pushInProgress(limit, jobId) ==
    /\ Answered("create", jobId)
    /\ handleUpdateTargetStatus(limit, jobId, call.input.target, "in-progress")

\* The downstream service has answered and nothing has thrown (for the AI
\* agent: not `async`): the route reports success for its target.
pushReportSuccess(limit, jobId) ==
    /\ Answered("update", jobId)
    /\ call.input.status = "in-progress"
    /\ handleUpdateTargetStatus(limit, jobId, call.input.target, "success")

\* The route's Response after its report of success.
pushReturnOk(jobId) ==
    /\ Answered("update", jobId)
    /\ call.input.status = "success"
    /\ call' = [op |-> "push", parsed |-> TRUE, jobId |-> jobId,
                target |-> call.input.target, outcome |-> "ok"]
    /\ resp' = [op |-> "push", status |-> 200, jobId |-> jobId]
    /\ sent' = NothingSent
    /\ UNCHANGED <<jobs, stored, sessions, now, inflight, accepted>>

\* The AI agent has answered `async: true`: the route returns and leaves the
\* report to the callback.
pushReturnAsync(jobId) ==
    /\ Answered("update", jobId)
    /\ call.input.status = "in-progress"
    /\ call.input.target = "ai-agent"
    /\ call' = [op |-> "push", parsed |-> TRUE, jobId |-> jobId,
                target |-> call.input.target, outcome |-> "async"]
    /\ resp' = [op |-> "push", status |-> 200, jobId |-> jobId]
    /\ sent' = NothingSent
    /\ UNCHANGED <<jobs, stored, sessions, now, inflight, accepted>>

\* Something after the report of in-progress has thrown (the AI agent's
\* answer was not OK, a payload did not parse, the database failed): the
\* route's catch marks the commit failed and answers 500.
pushReturnError(jobId) ==
    /\ Answered("update", jobId)
    /\ call.input.status = "in-progress"
    /\ call' = [op |-> "push", parsed |-> TRUE, jobId |-> jobId,
                target |-> call.input.target, outcome |-> "error"]
    /\ resp' = [op |-> "push", status |-> 500, jobId |-> jobId]
    /\ sent' = NothingSent
    /\ UNCHANGED <<jobs, stored, sessions, now, inflight, accepted>>

----------------------------------------------------------------------------
(* Specifications *)

\* The requests of one job, one handler at a time, with the clock running.
Next ==
    \/ Tick
    \/ \E t \in Targets : handleCreateJob(1, "j1", "c1", t)
    \/ \E t \in Services, s \in UpdateStatuses :
          handleUpdateTargetStatus(1, "j1", t, s)
    \/ \E t \in Services, s \in WebhookStatuses :
          handleWebhook(1, "j1", t, s, "m1", Undefined, NoDetails)
    \/ putResolved({})

Spec == Init /\ [][Next]_vars

\* The requests of two jobs pushed to D1CV, one handler at a time, with the
\* clock stopped and one live session; the webhooks are those of the AI agent.
NextJobs ==
    \/ \E j \in JobIds : handleCreateJob(1, j, "c1", "d1cv")
    \/ \E j \in JobIds, t \in Services, s \in UpdateStatuses :
          handleUpdateTargetStatus(1, j, t, s)
    \/ \E j \in JobIds, s \in WebhookStatuses :
          handleWebhook(1, j, "ai-agent", s, "m1", Undefined, NoDetails)
    \/ \E b \in SUBSET {"ws1"} : putResolved(b)
    \/ handleWebSocketUpgrade("ws1", "u1")
    \/ wsSubscribe("ws1", "all")

SpecJobs == Init /\ [][NextJobs]_vars

\* The requests of one job with up to MaxInFlight handlers suspended in
\* persistJobs, so that the handlers interleave at their awaits.
NextOverlap ==
    \/ \E t \in Targets : handleCreateJob(MaxInFlight, "j1", "c1", t)
    \/ \E t \in Services, s \in UpdateStatuses :
          handleUpdateTargetStatus(MaxInFlight, "j1", t, s)
    \/ \E t \in Services, s \in WebhookStatuses :
          handleWebhook(MaxInFlight, "j1", t, s, "m1", Undefined, NoDetails)
    \/ putResolved({})

SpecOverlap == Init /\ [][NextOverlap]_vars

\* The requests of one job, one handler at a time, with the clock stopped and
\* two sockets that connect, subscribe, unsubscribe and close; a send of a
\* broadcast may throw.
NextLive ==
    \/ handleCreateJob(1, "j1", "c1", "both")
    \/ \E t \in Services, s \in UpdateStatuses :
          handleUpdateTargetStatus(1, "j1", t, s)
    \/ \E s \in WebhookStatuses :
          handleWebhook(1, "j1", "ai-agent", s, "m1", Undefined, NoDetails)
    \/ \E b \in SUBSET Sockets : putResolved(b)
    \/ \E w \in Sockets : handleWebSocketUpgrade(w, "u1")
    \/ \E w \in Sockets, j \in {"j1", "all"} : wsSubscribe(w, j)
    \/ \E w \in Sockets : wsUnsubscribe(w, "j1")
    \/ \E w \in Sockets : webSocketClose(w)

SpecLive == Init /\ [][NextLive]_vars

\* The requests of one job, one handler at a time, with the clock stopped, one
\* socket, and restarts of the object.
NextRestart ==
    \/ \E t \in {"d1cv", "both"} : handleCreateJob(1, "j1", "c1", t)
    \/ \E s \in UpdateStatuses : handleUpdateTargetStatus(1, "j1", "d1cv", s)
    \/ putResolved({})
    \/ getStatus("j1")
    \/ handleWebSocketUpgrade("ws1", "u1")
    \/ wsSubscribe("ws1", "j1")
    \/ \E k \in 0..1 : restart(k)
    \/ loadResolved

SpecRestart == Init /\ [][NextRestart]_vars

\* The requests of one job, one handler at a time, with the clock stopped, one
\* socket, and saves that may fail.
NextFail ==
    \/ \E t \in {"d1cv", "both"} : handleCreateJob(1, "j1", "c1", t)
    \/ \E t \in Services, s \in UpdateStatuses :
          handleUpdateTargetStatus(1, "j1", t, s)
    \/ \E s \in WebhookStatuses :
          handleWebhook(1, "j1", "ai-agent", s, "m1", Undefined, NoDetails)
    \/ putResolved({})
    \/ putRejected
    \/ handleWebSocketUpgrade("ws1", "u1")
    \/ wsSubscribe("ws1", "j1")

SpecFail == Init /\ [][NextFail]_vars

\* One job id more than the cap of persistJobs lets through.
CapJobIds == {"j1", "j2", "j3"}

\* The requests of three jobs pushed to D1CV against a cap of MaxJobs, one
\* handler at a time, with the clock running.
NextCap ==
    \/ Tick
    \/ \E j \in CapJobIds : handleCreateJob(1, j, "c1", "d1cv")
    \/ \E j \in CapJobIds : handleUpdateTargetStatus(1, j, "d1cv", "in-progress")
    \/ putResolved({})

SpecCap == Init /\ [][NextCap]_vars

\* The requests of one job pushed to both services, one handler at a time,
\* with the clock running and the alarm going off at any time.
NextSweep ==
    \/ Tick
    \/ handleCreateJob(1, "j1", "c1", "both")
    \/ \E t \in Services, s \in UpdateStatuses :
          handleUpdateTargetStatus(1, "j1", t, s)
    \/ putResolved({})
    \/ alarm(1)
    \/ alarmResolved

SpecSweep == Init /\ [][NextSweep]_vars

\* The callbacks that arrive at the Worker's /v2/webhook for one job, one
\* handler at a time, with the clock stopped and one socket.
NextGate ==
    \/ handleCreateJob(1, "j1", "c1", "both")
    \/ \E k \in Secrets, h \in SignatureHeaders, b \in Bodies :
          v2Webhook(1, k, h, b)
    \/ putResolved({})
    \/ handleWebSocketUpgrade("ws1", "u1")
    \/ wsSubscribe("ws1", "j1")

SpecGate == Init /\ [][NextGate]_vars

\* The requests of one job pushed to both services, one handler at a time,
\* with the clock stopped; the webhooks carry details.
NextDetails ==
    \/ handleCreateJob(1, "j1", "c1", "both")
    \/ \E t \in Services, s \in UpdateStatuses :
          handleUpdateTargetStatus(1, "j1", t, s)
    \/ \E t \in Services, s \in WebhookStatuses, d \in DetailsSet :
          handleWebhook(1, "j1", t, s, "m1", Undefined, d)
    \/ putResolved({})

SpecDetails == Init /\ [][NextDetails]_vars

\* The messages of one socket and the requests of one job pushed to D1CV,
\* one handler at a time, with the clock stopped and restarts of the object.
NextMessages ==
    \/ handleCreateJob(1, "j1", "c1", "d1cv")
    \/ \E s \in UpdateStatuses : handleUpdateTargetStatus(1, "j1", "d1cv", s)
    \/ putResolved({})
    \/ handleWebSocketUpgrade("ws1", "u1")
    \/ wsSubscribe("ws1", "j1")
    \/ wsPing("ws1")
    \/ wsListActive("ws1")
    \/ wsMalformed("ws1")
    \/ wsOther("ws1")
    \/ \E k \in 0..1 : restart(k)
    \/ loadResolved

SpecMessages == Init /\ [][NextMessages]_vars

\* The requests of one job pushed to both services, one handler at a time,
\* with the clock running and nothing but the runtime to call alarm: no
\* statement of the class calls ctx.storage.setAlarm, so the runtime never
\* does.  The clock advances and a put that was started resolves; requests
\* need not come.
NextIdle ==
    \/ Tick
    \/ handleCreateJob(1, "j1", "c1", "both")
    \/ \E s \in UpdateStatuses : handleUpdateTargetStatus(1, "j1", "d1cv", s)
    \/ putResolved({})

SpecIdle ==
    Init /\ [][NextIdle]_vars /\ WF_vars(Tick) /\ WF_vars(putResolved({}))

\* The pushes of two jobs to D1CV and to the AI agent, one push at a time,
\* with the clock running.
NextPush ==
    \/ Tick
    \/ \E j \in JobIds, t \in Services : pushCreate(1, j, "c1", t)
    \/ \E j \in JobIds : pushInProgress(1, j)
    \/ \E j \in JobIds : pushReportSuccess(1, j)
    \/ \E j \in JobIds : pushReturnOk(j)
    \/ \E j \in JobIds : pushReturnAsync(j)
    \/ \E j \in JobIds : pushReturnError(j)
    \/ putResolved({})

SpecPush == Init /\ [][NextPush]_vars

\* The requests of two jobs pushed to both services, one handler at a time,
\* with the clock running; the AI agent's push is reported successful and
\* callbacks report failure.
NextFrame ==
    \/ Tick
    \/ \E j \in JobIds : handleCreateJob(1, j, "c1", "both")
    \/ \E j \in JobIds : handleUpdateTargetStatus(1, j, "ai-agent", "success")
    \/ \E j \in JobIds, t \in Services :
          handleWebhook(1, j, t, "failed", "m1", Undefined, [chunks |-> "3"])
    \/ putResolved({})

SpecFrame == Init /\ [][NextFrame]_vars

----------------------------------------------------------------------------
(* Properties *)

Terminal == {"completed", "failed"}
DoneStatuses == {"success", "skipped"}

\* The sub-status of a job for a service.
SubStatus(job, service) ==
    IF service = "d1cv" THEN job.d1cvStatus ELSE job.aiAgentStatus
OtherService(service) == IF service = "d1cv" THEN "ai-agent" ELSE "d1cv"

\* The step is the synchronous part of handleCreateJob for job j.
CreateStep(j) ==
    /\ Len(inflight') = Len(inflight) + 1
    /\ call'.op = "create"
    /\ call'.jobId = j

\* The step is the synchronous part of handleUpdateTargetStatus or
\* handleWebhook for a job j that the map holds.
MutationStep(j) ==
    /\ Len(inflight') = Len(inflight) + 1
    /\ call'.op \in {"update", "webhook"}
    /\ call'.jobId = j

\* The step is the 404 of handleUpdateTargetStatus or handleWebhook for job j.
NotFoundStep(j) ==
    /\ call'.op \in {"update", "webhook"}
    /\ call'.parsed
    /\ call'.jobId = j
    /\ ~call'.found
    /\ resp'.op = call'.op

\* The precedence chain of the overall status, prev being the overall status
\* before.
PrecedenceChain(d1, ai, target, prev) ==
    IF d1 = "failed" \/ ai = "failed" THEN "failed"
    ELSE IF d1 \in DoneStatuses /\ ai \in DoneStatuses THEN "completed"
    ELSE IF d1 \in DoneStatuses /\ target = "both" THEN "d1cv-done"
    ELSE IF ai \in DoneStatuses /\ target = "both" THEN "ai-done"
    ELSE IF d1 = "in-progress" \/ ai = "in-progress" THEN "in-progress"
    ELSE prev

\* C1: after every updateTargetStatus and applyWebhook on a job, the job's
\* overallStatus is the result of the precedence chain on its sub-statuses,
\* its target and its overallStatus before: failed, else completed, else
\* d1cv-done, else ai-done, else in-progress, else the previous value.
C1_DerivationFollowsChain ==
    [][\A j \in JobIds :
          (MutationStep(j) /\ MapHas(jobs', j)) =>
              LET before == MapGet(jobs, j)
                  after  == MapGet(jobs', j)
              IN  after.overallStatus =
                      PrecedenceChain(after.d1cvStatus, after.aiAgentStatus,
                                      after.target, before.overallStatus)]_vars

\* C1, witness: an update has just left a job of target both at ai-done.
C1_Witness ==
    /\ inflight # <<>>
    /\ call.op = "update"
    /\ MapHas(jobs, "j1")
    /\ MapGet(jobs, "j1").target = "both"
    /\ MapGet(jobs, "j1").d1cvStatus = "in-progress"
    /\ MapGet(jobs, "j1").overallStatus = "ai-done"

\* C2: once a job's overallStatus is completed or failed, no later
\* updateTargetStatus or applyWebhook changes it.
C2_TerminalHasNoWayOut ==
    [][\A j \in JobIds :
          (MutationStep(j) /\ MapHas(jobs', j)
              /\ MapGet(jobs, j).overallStatus \in Terminal) =>
              MapGet(jobs', j).overallStatus = MapGet(jobs, j).overallStatus]_vars

\* C3: once completedAt of a job is set, no updateTargetStatus or
\* applyWebhook on the job changes or clears it.
C3_CompletedAtStampedOnce ==
    [][\A j \in JobIds :
          (MutationStep(j) /\ MapHas(jobs', j)
              /\ MapGet(jobs, j).completedAt # NoTime) =>
              MapGet(jobs', j).completedAt = MapGet(jobs, j).completedAt]_vars

\* C4: the overallStatus of a job is determined by its d1cvStatus,
\* aiAgentStatus and target: two jobs that agree on the three agree on their
\* overallStatus.
C4_OverallIsFunctionOfTriple ==
    \A i, k \in 1..Len(jobs) :
        (/\ jobs[i].d1cvStatus = jobs[k].d1cvStatus
         /\ jobs[i].aiAgentStatus = jobs[k].aiAgentStatus
         /\ jobs[i].target = jobs[k].target)
            => jobs[i].overallStatus = jobs[k].overallStatus

\* A job one of whose sub-statuses is failed is failed.
FailedWins ==
    \A i \in 1..Len(jobs) :
        (jobs[i].d1cvStatus = "failed" \/ jobs[i].aiAgentStatus = "failed")
            => jobs[i].overallStatus = "failed"

\* C5: a job with a failed sub-status has overallStatus failed in every
\* state, and once one sub-status is failed an update or webhook for the
\* other target leaves overallStatus at failed.
C5_FailureIsSticky ==
    /\ []FailedWins
    /\ [][\A j \in JobIds :
             (MutationStep(j) /\ MapHas(jobs', j)
                 /\ SubStatus(MapGet(jobs, j), OtherService(call'.target)) = "failed")
                 => MapGet(jobs', j).overallStatus = "failed"]_vars

\* C5, witness: d1cv has failed and a success for ai-agent has just been
\* applied.
C5_Witness ==
    /\ inflight # <<>>
    /\ call.op \in {"update", "webhook"}
    /\ call.target = "ai-agent"
    /\ call.status = "success"
    /\ MapHas(jobs, "j1")
    /\ MapGet(jobs, "j1").d1cvStatus = "failed"
    /\ MapGet(jobs, "j1").aiAgentStatus = "success"
    /\ MapGet(jobs, "j1").overallStatus = "failed"

\* The sub-status of service s that the suspended handlers have written last
\* to the job object the map holds under j, if one has.
Writers(j, s) ==
    {i \in 1..Len(inflight) :
        /\ inflight[i].attached
        /\ inflight[i].jobId = j
        /\ inflight[i].op \in {"update", "webhook"}
        /\ inflight[i].input.target = s}
LastWriter(j, s) == CHOOSE i \in Writers(j, s) : \A k \in Writers(j, s) : k <= i

\* C6: with an updateTargetStatus and an applyWebhook of one job suspended at
\* the same time, the job carries the sub-status each service was written
\* last, and its overallStatus is the one the precedence chain gives for the
\* sub-statuses it carries.
C6_NoLostUpdate ==
    \A i \in 1..Len(jobs) :
        LET job == jobs[i]
        IN  /\ job.overallStatus =
                   PrecedenceChain(job.d1cvStatus, job.aiAgentStatus,
                                   job.target, job.overallStatus)
            /\ \A s \in Services :
                   Writers(job.jobId, s) # {} =>
                       SubStatus(job, s) =
                           inflight[LastWriter(job.jobId, s)].input.status

\* C6, witness: an update for d1cv and a webhook for ai-agent of the same job
\* are suspended together.
C6_Witness ==
    /\ Len(inflight) = 2
    /\ inflight[1].op = "update" /\ inflight[2].op = "webhook"
    /\ inflight[1].attached /\ inflight[2].attached
    /\ inflight[1].input.target = "d1cv" /\ inflight[1].input.status = "success"
    /\ inflight[2].input.target = "ai-agent" /\ inflight[2].input.status = "success"
    /\ MapGet(jobs, "j1").target = "both"
    /\ MapGet(jobs, "j1").overallStatus = "completed"

\* C7: on a job of target both, a success for one service while the other has
\* not succeeded yet gives d1cv-done (d1cv first) or ai-done (ai-agent
\* first); the success that arrives second gives, in either order, both
\* sub-statuses success, overallStatus completed and completedAt set.
C7_SuccessesCommute ==
    [][\A j \in JobIds :
          (MutationStep(j) /\ MapHas(jobs', j) /\ call'.status = "success"
              /\ MapGet(jobs, j).target = "both") =>
              LET before == MapGet(jobs, j)
                  after  == MapGet(jobs', j)
                  other  == SubStatus(before, OtherService(call'.target))
              IN  /\ other \in {"pending", "in-progress"} =>
                        after.overallStatus =
                            (IF call'.target = "d1cv" THEN "d1cv-done" ELSE "ai-done")
                  /\ other = "success" =>
                        /\ after.d1cvStatus = "success"
                        /\ after.aiAgentStatus = "success"
                        /\ after.overallStatus = "completed"
                        /\ after.completedAt # NoTime]_vars

\* C7, witness: the success of d1cv has arrived after that of ai-agent.
C7_Witness ==
    /\ inflight # <<>>
    /\ call.op = "update" /\ call.target = "d1cv" /\ call.status = "success"
    /\ MapHas(jobs, "j1")
    /\ MapGet(jobs, "j1").target = "both"
    /\ MapGet(jobs, "j1").aiAgentResult # NoResult
    /\ MapGet(jobs, "j1").overallStatus = "completed"

\* C8: create stores a job with overallStatus pending, no completedAt,
\* d1cvStatus skipped for target ai-agent and pending otherwise,
\* aiAgentStatus skipped for target d1cv and pending otherwise, and
\* startedAt = updatedAt.
C8_CreateStoresPendingJob ==
    [][\A j \in JobIds :
          (CreateStep(j) /\ MapHas(jobs', j)) =>
              LET job == MapGet(jobs', j)
              IN  /\ job.overallStatus = "pending"
                  /\ job.completedAt = NoTime
                  /\ job.d1cvStatus = (IF call'.target = "ai-agent"
                                       THEN "skipped" ELSE "pending")
                  /\ job.aiAgentStatus = (IF call'.target = "d1cv"
                                          THEN "skipped" ELSE "pending")
                  /\ job.startedAt = job.updatedAt
                  /\ job.target = call'.target]_vars

\* C8, witness: a job of target ai-agent has just been created, at a time
\* after the start of the clock.
C8_Witness ==
    /\ inflight # <<>>
    /\ call.op = "create" /\ call.target = "ai-agent"
    /\ now > 0
    /\ MapHas(jobs, "j1")
    /\ MapGet(jobs, "j1").d1cvStatus = "skipped"

\* The step in which the put of a create resolves and the create had found
\* its jobId in the map.
DuplicateCreateAnswered ==
    /\ inflight # <<>>
    /\ inflight' = Tail(inflight)
    /\ Head(inflight).op = "create"
    /\ Head(inflight).input.existed
    /\ call'.op \in {"resolved", "rejected"}

\* C9, as claimed: create with a jobId the map holds does not return success
\* and leaves the existing job unchanged.
C9_DuplicateCreateFails ==
    [][\A j \in JobIds :
          /\ (CreateStep(j) /\ MapHas(jobs, j)) =>
                 (MapHas(jobs', j) /\ MapGet(jobs', j) = MapGet(jobs, j))
          /\ DuplicateCreateAnswered => resp'.status # 200]_vars

\* C9, amended: create with a jobId the map holds replaces the existing job
\* by a new job in its creation state, and returns success with that job
\* once the save has resolved.
C9_DuplicateCreateOverwrites ==
    [][\A j \in JobIds :
          /\ (CreateStep(j) /\ MapHas(jobs, j)) =>
                 /\ MapHas(jobs', j)
                 /\ Len(jobs') = Len(jobs)
                 /\ LET job == MapGet(jobs', j)
                    IN  /\ job.target = call'.target
                        /\ job.overallStatus = "pending"
                        /\ job.d1cvStatus \in {"pending", "skipped"}
                        /\ job.aiAgentStatus \in {"pending", "skipped"}
                        /\ job.d1cvResult = NoResult
                        /\ job.aiAgentResult = NoResult
                        /\ job.completedAt = NoTime
                        /\ job.startedAt = ToISOString(now)
                        /\ job.updatedAt = ToISOString(now)
          /\ (DuplicateCreateAnswered /\ call'.op = "resolved") =>
                 /\ resp'.status = 200
                 /\ resp'.body.success
                 /\ resp'.body.job.jobId = Head(inflight).jobId]_vars

\* C9, witness: a create has just replaced a job that had failed and had a
\* result.
C9_Witness ==
    /\ inflight # <<>>
    /\ call.op = "create" /\ call.found
    /\ stored.has /\ MapHas(stored.jobs, "j1")
    /\ MapGet(stored.jobs, "j1").overallStatus = "failed"
    /\ MapGet(stored.jobs, "j1").d1cvResult # NoResult
    /\ MapGet(jobs, "j1").overallStatus = "pending"

\* C10: updateTargetStatus and applyWebhook for a jobId the map does not hold
\* answer 404 and change nothing: no job is created or changed, nothing is
\* handed to the storage, and no message is sent.
C10_UnknownJobIsNotFound ==
    [][\A j \in JobIds :
          NotFoundStep(j) =>
              /\ resp'.status = 404
              /\ jobs' = jobs
              /\ stored' = stored
              /\ inflight' = inflight
              /\ sessions' = sessions
              /\ sent' = NothingSent]_vars

\* C10, witness: a webhook for j2 has been answered 404 while the map holds
\* j1 and a session is subscribed to every job.
C10_Witness ==
    /\ call.op = "webhook" /\ call.jobId = "j2" /\ ~call.found
    /\ resp.status = 404
    /\ MapHas(jobs, "j1") /\ ~MapHas(jobs, "j2")
    /\ "ws1" \in DOMAIN sessions
    /\ "all" \in sessions["ws1"].subscribedJobs

\* The sub-status handleCreateJob gives a service for a target.
CreationStatus(target, service) ==
    IF (target = "ai-agent" /\ service = "d1cv")
          \/ (target = "d1cv" /\ service = "ai-agent")
    THEN "skipped" ELSE "pending"

\* C11: the sub-status of a service the job's target excludes is skipped in
\* every state, so it is never failed and the job is never failed because of
\* it.
C11_ExcludedServiceStaysSkipped ==
    \A i \in 1..Len(jobs) :
        \A s \in Services :
            CreationStatus(jobs[i].target, s) = "skipped"
                => SubStatus(jobs[i], s) = "skipped"

\* C12: a job whose overallStatus is pending has both sub-statuses at their
\* creation values for its target.
C12_PendingHasCreationStatuses ==
    \A i \in 1..Len(jobs) :
        jobs[i].overallStatus = "pending" =>
            \A s \in Services :
                SubStatus(jobs[i], s) = CreationStatus(jobs[i].target, s)

Mutations == {"create", "update", "webhook"}

\* The map m holds job jobId with the mutation of the handler op on input.
Carries(m, jobId, op, input) ==
    /\ MapHas(m, jobId)
    /\ LET job == MapGet(m, jobId)
       IN  IF op = "create"
           THEN /\ job.target = input.target
                /\ job.overallStatus = "pending"
           ELSE SubStatus(job, input.target) = input.status

\* Some socket has just been sent a status message.
StatusSent == \E w \in Sockets : sent[w] # <<>> /\ sent[w][1].type = "status"

\* C13: whenever create, updateTargetStatus or handleWebhook has returned
\* success, the persisted store already holds the job with that mutation, as
\* the memory holds it; a status message that is not the replay of a subscribe
\* is sent only by a handler whose save has completed, and no handler has
\* answered or broadcast while its put is pending.
C13_SuccessOnlyAfterSave ==
    /\ (resp.op \in Mutations /\ resp.status = 200) =>
          /\ call.op = "resolved"
          /\ stored.has
          /\ Carries(stored.jobs, call.jobId, call.of, call.input)
          /\ MapGet(stored.jobs, call.jobId) = MapGet(jobs, call.jobId)
    /\ (StatusSent /\ call.op # "subscribe") =>
          /\ call.op = "resolved"
          /\ stored.has
          /\ Carries(stored.jobs, call.jobId, call.of, call.input)
    /\ (call.op \in Mutations /\ call.parsed
            /\ (call.op = "create" \/ call.found)) =>
          inflight # <<>> /\ resp = NoResp /\ ~StatusSent

\* C14: while the load of a restart is pending no request, webhook or socket
\* message is processed (only the load's completion changes the object), and
\* the job map the load leaves for the first operation is the last persisted
\* map, or the empty map if nothing was ever persisted.
C14_LoadBeforeServing ==
    /\ [](call.op = "loaded" =>
            /\ ~LoadPending
            /\ jobs = IF stored.has THEN stored.jobs ELSE <<>>)
    /\ [][LoadPending =>
            \/ call'.op = "loaded"
            \/ UNCHANGED <<jobs, stored, sessions, inflight, call, resp, sent,
                           accepted>>]_vars

\* After a restart the load has brought back the persisted job, with a socket
\* still accepted.
C14_Witness ==
    /\ call.op = "loaded"
    /\ stored.has
    /\ MapHas(jobs, "j1")
    /\ MapGet(jobs, "j1").d1cvStatus = "success"
    /\ "ws1" \in accepted

\* C15: when the save of create, updateTargetStatus or handleWebhook fails,
\* the handler answers with an error, no status message is sent, the persisted
\* store is what it was before the handler began, and the memory keeps the
\* mutation.
C15_FailedSaveIsAnError ==
    /\ [](call.op = "rejected" =>
            /\ resp.op = call.of
            /\ resp.status = 500
            /\ sent = NothingSent
            /\ Carries(jobs, call.jobId, call.of, call.input))
    /\ [][(\/ Len(inflight') = Len(inflight) + 1
           \/ (call'.op = "rejected" /\ Len(inflight') = Len(inflight) - 1))
             => stored' = stored]_vars

\* The save of an update has failed with a subscriber listening: the store
\* still holds the job as it was, the memory holds the update.
C15_Witness ==
    /\ call.op = "rejected"
    /\ call.of = "update"
    /\ "ws1" \in Subscribers(sessions, "j1")
    /\ stored.has
    /\ MapHas(stored.jobs, "j1")
    /\ MapGet(stored.jobs, "j1") # MapGet(jobs, "j1")

\* The step is the continuation of a handler whose save has succeeded.
SavedStep ==
    /\ Len(inflight') = Len(inflight) - 1
    /\ call'.op = "resolved"
    /\ resp'.status = 200

\* C16: a successful create, updateTargetStatus or handleWebhook sends exactly
\* one status message, carrying the job as it is after the operation, to each
\* registered socket whose subscription set holds the job's id or 'all' (a
\* socket whose send throws gets nothing and is unregistered), and sends
\* nothing to any other socket.
C16_BroadcastReachesSubscribers ==
    [][SavedStep =>
        \A w \in Sockets :
            IF /\ w \in DOMAIN sessions
               /\ \/ call'.jobId \in sessions[w].subscribedJobs
                  \/ "all" \in sessions[w].subscribedJobs
            THEN \/ sent'[w] = <<StatusMessage(MapGet(jobs', call'.jobId), now)>>
                 \/ (sent'[w] = <<>> /\ w \notin DOMAIN sessions')
            ELSE sent'[w] = <<>> /\ (w \in DOMAIN sessions <=> w \in DOMAIN sessions')
    ]_vars

\* A broadcast has reached a socket subscribed to 'all' and passed over a
\* registered socket with an empty subscription set.
C16_Witness ==
    /\ call.op = "resolved"
    /\ DOMAIN sessions = Sockets
    /\ sessions["ws1"].subscribedJobs = {"all"}
    /\ sessions["ws2"].subscribedJobs = {}
    /\ sent["ws1"] # <<>>
    /\ sent["ws1"][1].data.overallStatus = "d1cv-done"
    /\ sent["ws2"] = <<>>

\* C17: a subscribe{jobId} from a registered socket adds jobId to that
\* socket's subscription set and leaves every other set alone; if the job
\* exists the socket is sent exactly one status message with the job as it is
\* now, in the step of the subscribe itself, and no other socket is sent
\* anything; if the job does not exist nothing is sent.
C17_SubscribeReplays ==
    [][(call'.op = "subscribe" /\ call'.ws \in DOMAIN sessions) =>
        LET ws == call'.ws
            j  == call'.jobId
        IN  /\ DOMAIN sessions' = DOMAIN sessions
            /\ sessions'[ws].subscribedJobs =
                   sessions[ws].subscribedJobs \cup {j}
            /\ \A w \in DOMAIN sessions \ {ws} : sessions'[w] = sessions[w]
            /\ \A w \in Sockets \ {ws} : sent'[w] = <<>>
            /\ sent'[ws] = IF MapHas(jobs, j)
                           THEN <<StatusMessage(MapGet(jobs, j), now)>>
                           ELSE <<>>
            /\ UNCHANGED <<jobs, stored, inflight>>
    ]_vars

\* A socket that subscribed after the job had completed has been sent the
\* completed job, with no handler running.
C17_Witness ==
    /\ call.op = "subscribe"
    /\ call.jobId = "j1"
    /\ call.ws = "ws2"
    /\ inflight = <<>>
    /\ sent["ws2"] # <<>>
    /\ sent["ws2"][1].type = "status"
    /\ sent["ws2"][1].data.overallStatus = "completed"
    /\ "j1" \in sessions["ws2"].subscribedJobs

\* C18: when sends of a broadcast throw, exactly the sockets whose send threw
\* leave the registry, every other subscribed socket is sent the message, and
\* the handler still answers success with its mutation in memory and in the
\* store; a socket that has left the registry is sent nothing by any later
\* step and stays out of the registry until it is closed.
C18_DeadSocketIsDropped ==
    /\ [][(SavedStep /\ DOMAIN sessions' # DOMAIN sessions) =>
            LET j    == call'.jobId
                dead == DOMAIN sessions \ DOMAIN sessions'
            IN  /\ DOMAIN sessions' \subseteq DOMAIN sessions
                /\ dead \subseteq Subscribers(sessions, j)
                /\ \A w \in dead : sent'[w] = <<>>
                /\ \A w \in Subscribers(sessions, j) \ dead :
                      /\ sent'[w] = <<StatusMessage(MapGet(jobs', j), now)>>
                      /\ sessions'[w] = sessions[w]
                /\ resp'.op = call'.of
                /\ jobs' = jobs
                /\ Carries(jobs', j, call'.of, call'.input)
                /\ stored'.has
                /\ Carries(stored'.jobs, j, call'.of, call'.input)
       ]_vars
    /\ [][\A w \in accepted \ DOMAIN sessions :
            /\ w \notin DOMAIN sessions'
            /\ sent'[w] = <<>>
       ]_vars

\* A broadcast has been delivered to ws2 and answered with success while ws1,
\* still open, is out of the registry after its send threw.
C18_Witness ==
    /\ call.op = "resolved"
    /\ resp.status = 200
    /\ "ws1" \in accepted
    /\ "ws1" \notin DOMAIN sessions
    /\ "ws2" \in DOMAIN sessions
    /\ sent["ws2"] # <<>>
    /\ sent["ws2"][1].type = "status"

\* The updatedAt, in milliseconds, that job j has when the handler of the
\* step calls persistJobs: the job the handler has just written is stamped
\* with the time of the call.
UpdatedAtSaved(j) ==
    IF j = call'.jobId THEN now ELSE GetTime(MapGet(jobs, j).updatedAt)

\* C19: the memory and the persisted store never hold more than MaxJobs jobs,
\* and when a handler's save drops jobs, every job it keeps has an updatedAt
\* not older than that of every job it drops.
C19_CapKeepsLatest ==
    /\ [](Len(jobs) <= MaxJobs /\ Len(stored.jobs) <= MaxJobs)
    /\ [][Len(inflight') = Len(inflight) + 1 =>
            LET before  == MapKeys(jobs) \cup {call'.jobId}
                dropped == before \ MapKeys(jobs')
            IN  /\ MapKeys(jobs') \subseteq before
                /\ Len(inflight'[Len(inflight')].putval) <= MaxJobs
                /\ dropped # {} => Len(jobs') = MaxJobs
                /\ \A k \in MapKeys(jobs'), d \in dropped :
                      UpdatedAtSaved(k) >= UpdatedAtSaved(d)
       ]_vars

\* The creation of j3 has pushed j1, which the store still holds, out of the
\* memory, and kept j2, which was updated after j1.
C19_Witness ==
    /\ call.op = "create"
    /\ call.jobId = "j3"
    /\ inflight # <<>>
    /\ MapKeys(jobs) = {"j2", "j3"}
    /\ MapKeys(stored.jobs) = {"j1", "j2"}
    /\ GetTime(MapGet(stored.jobs, "j1").updatedAt)
          < GetTime(MapGet(jobs, "j2").updatedAt)

\* C20: the alarm deletes exactly the jobs whose completedAt is more than a
\* day old, and every job it deletes has overallStatus completed or failed.
C20_SweepDeletesOnlyTerminal ==
    [][(call'.op = "alarm" /\ Len(inflight') = Len(inflight) + 1) =>
        LET deleted == MapKeys(jobs) \ MapKeys(jobs')
        IN  /\ deleted = {j \in MapKeys(jobs) :
                            /\ MapGet(jobs, j).completedAt # NoTime
                            /\ GetTime(MapGet(jobs, j).completedAt)
                                  < now - DayMs}
            /\ \A j \in deleted : MapGet(jobs, j).overallStatus \in Terminal
    ]_vars

\* C21: whenever create has just returned success, the memory, which getStatus
\* reads, and the persisted store hold the job created.
C21_CreatedJobIsVisible ==
    (resp.op = "create" /\ resp.status = 200) =>
        /\ MapHas(jobs, resp.jobId)
        /\ stored.has
        /\ MapHas(stored.jobs, resp.jobId)

\* The request of the step came in at /v2/webhook with a secret configured.
GatedCall(c) == c.op \in {"webhook", "v2/webhook"} /\ c.secret # Undefined

\* C22: with a secret configured, every callback that the orchestrator's
\* webhook handler is handling carried the hexadecimal HMAC-SHA256 of its body
\* under the secret as its signature.
C22_OnlySignedCallbacksForwarded ==
    (GatedCall(call) /\ call.op = "webhook") =>
        /\ call.signature.present
        /\ call.signature.text = ToHex(HmacSha256(call.secret, call.body))

ResultField(job, service) ==
    IF service = "d1cv" THEN job.d1cvResult ELSE job.aiAgentResult

\* C24: after handleWebhook on a known job, for either source, the source's
\* result holds success = (status is success), the message, the error and
\* every key of details, and the source's sub-status is the status.
C24_WebhookStoresResult ==
    [][\A j \in JobIds :
          (MutationStep(j) /\ call'.op = "webhook") =>
              LET job == MapGet(jobs', j)
                  r   == ResultField(job, call'.target)
              IN  /\ SubStatus(job, call'.target) = call'.status
                  /\ r.present
                  /\ r.value.success = (call'.status = "success")
                  /\ r.value.message = call'.message
                  /\ r.value.error = call'.error
                  /\ \A k \in DOMAIN call'.details :
                        /\ k \in DOMAIN r.value
                        /\ r.value[k] = call'.details[k]
    ]_vars

\* C29: in every state, a result that is present has success true exactly
\* when the sub-status of its service is success.
C29_ResultAgreesWithStatus ==
    \A i \in 1..Len(jobs) :
        \A s \in Services :
            ResultField(jobs[i], s).present =>
                (ResultField(jobs[i], s).value.success
                    <=> SubStatus(jobs[i], s) = "success")

\* C25: a message that is not JSON, or whose type no case names, gets no
\* reply; the sessions, the job map, the persisted store and the suspended
\* handlers are as before, and the socket stays accepted.
C25_BadMessageIgnored ==
    [][call'.op = "message" =>
          /\ sent' = NothingSent
          /\ resp' = NoResp
          /\ UNCHANGED <<jobs, stored, sessions, inflight, accepted>>
    ]_vars

\* A message that is not JSON has come from a socket subscribed to j1 while
\* the memory holds j1.
C25_Witness ==
    /\ call.op = "message"
    /\ ~call.parsed
    /\ "ws1" \in DOMAIN sessions
    /\ sessions["ws1"].subscribedJobs = {"j1"}
    /\ MapHas(jobs, "j1")
    /\ stored.has

\* C27: a socket the runtime has accepted is served whatever restarts there
\* were: its ping is answered with a pong, its subscribe is recorded and
\* replayed, and a broadcast reaches it if it is subscribed to the job.
C27_OpenSocketIsServed ==
    /\ [][call'.op = "ping" =>
            (sent'[call'.ws] # <<>> /\ sent'[call'.ws][1].type = "pong")]_vars
    /\ [][call'.op = "subscribe" =>
            /\ call'.ws \in DOMAIN sessions'
            /\ call'.jobId \in sessions'[call'.ws].subscribedJobs
            /\ MapHas(jobs, call'.jobId) => sent'[call'.ws] # <<>>]_vars
    /\ [][SavedStep =>
            \A w \in accepted :
                (w \in DOMAIN sessions /\ sent'[w] # <<>>)
                    \/ (w \in DOMAIN sessions
                           /\ call'.jobId \notin sessions[w].subscribedJobs)
       ]_vars

\* C26: a job that is completed or failed with a completedAt more than a day
\* old is eventually removed from the job map, with nobody calling the sweep.
C26_TerminalJobIsSwept ==
    (/\ MapHas(jobs, "j1")
     /\ MapGet(jobs, "j1").overallStatus \in Terminal
     /\ Expired(MapGet(jobs, "j1"), now))
        ~> ~MapHas(jobs, "j1")

\* C28: whenever a push has returned an error after it had created its job
\* and reported in-progress, the orchestrator holds failed for the push's
\* target: the job is not left in-progress.
C28_FailedPushReportsFailed ==
    (call.op = "push" /\ resp.status = 500) =>
        /\ MapHas(jobs, call.jobId)
        /\ SubStatus(MapGet(jobs, call.jobId), call.target) = "failed"
        /\ MapGet(jobs, call.jobId).overallStatus = "failed"

\* C30: the synchronous part of handleUpdateTargetStatus or handleWebhook on a
\* job j leaves j's jobId, commitId, target and startedAt, the other service's
\* sub-status and result and, for an update, the named service's result as
\* they were, leaves every other job as it was, and neither adds nor removes a
\* job nor moves one in the map.
C30_MutationFrame ==
    [][\A j \in JobIds :
          MutationStep(j) =>
              LET old   == MapGet(jobs, j)
                  new   == MapGet(jobs', j)
                  other == OtherService(call'.target)
              IN  /\ Len(jobs') = Len(jobs)
                  /\ \A i \in 1..Len(jobs) :
                        /\ jobs'[i].jobId = jobs[i].jobId
                        /\ jobs[i].jobId # j => jobs'[i] = jobs[i]
                  /\ new.jobId = old.jobId
                  /\ new.commitId = old.commitId
                  /\ new.target = old.target
                  /\ new.startedAt = old.startedAt
                  /\ SubStatus(new, other) = SubStatus(old, other)
                  /\ ResultField(new, other) = ResultField(old, other)
                  /\ call'.op = "update" =>
                        ResultField(new, call'.target)
                            = ResultField(old, call'.target)
                  /\ UNCHANGED <<stored, sessions, accepted>>
    ]_vars

\* A callback of the AI agent has been applied to j2, later than its start,
\* while j2 holds a result of D1CV and the map holds j1 as well.
C30_Witness ==
    /\ call.op = "webhook"
    /\ call.jobId = "j2"
    /\ call.target = "ai-agent"
    /\ inflight # <<>>
    /\ MapHas(jobs, "j1")
    /\ MapHas(jobs, "j2")
    /\ MapGet(jobs, "j2").d1cvResult.present
    /\ MapGet(jobs, "j2").aiAgentResult.present
    /\ MapGet(jobs, "j2").startedAt # MapGet(jobs, "j2").updatedAt

====
